---- MODULE Spec2Model ----
(***************************************************************************)
(* State-machine model of dvc's parameter dependency                       *)
(* (dvc/dependency/param.py) and of the interpolation context              *)
(* (dvc/parsing/context.py).                                               *)
(*                                                                         *)
(* Three specifications share the module:                                  *)
(*   SpecParams   one ParamsDependency, its parameters file, and the       *)
(*                operations read_params / get_hash / status / save        *)
(*   SpecContext  a heap of context nodes with two Contexts and a clone    *)
(*   SpecFormat   String.__init__ applied to bounded templates             *)
(***************************************************************************)
EXTENDS Integers, Sequences, FiniteSets, TLC

VARIABLES
    \* ---- ParamsDependency (param.py) ----
    params,      \* self.params: ordered list of dotted names
    hash_info,   \* self.hash_info: [set, value]; set = FALSE is None
    fileState,   \* what is at self.fs_path: "missing" | "dir" | "bad" | "ok"
    config,      \* what the loader returns for the file when fileState = "ok"
    outcome,     \* the last operation on the dependency and what it returned
    cleanSinceSave, \* TRUE from a successful save() until the file or baseline is touched
    \* ---- Context (context.py) ----
    heap,        \* the Python objects, by identity
    ctxs,        \* the Contexts "orig" and "clone": root object, _track, _tracked_data
    steps,       \* mutating calls made so far
    lastOp,      \* the last call on a Context, its arguments and what it raised
    snap,        \* what both Contexts held when clone() returned, and who was mutated since
    depth,       \* how many `with ctx.track():` blocks the caller is inside
    byTracked,   \* the ledger entries that a select inside a track() block recorded
    \* ---- String (context.py) ----
    template,    \* the template string, character by character
    fmt          \* what formatting the template against Context "orig" gave

paramsVars == <<params, hash_info, fileState, config, outcome, cleanSinceSave>>
ctxVars == <<heap, ctxs, steps, lastOp, snap, depth, byTracked>>
fmtVars == <<template, fmt>>

vars == <<params, hash_info, fileState, config, outcome, cleanSinceSave,
          heap, ctxs, steps, lastOp, snap, depth, byTracked, template, fmt>>

(***************************************************************************)
(* Bounds                                                                  *)
(***************************************************************************)
MaxParams == 2      \* longest requestedParams list
MaxVal == 2         \* leaf values are the integers 1..MaxVal
MaxSteps == 2       \* mutating calls on the Contexts in one run
MaxDepth == 2       \* nesting of track() blocks
MaxChunks == 3      \* pieces a template is put together from

(***************************************************************************)
(* Raw loaded data: what a loader returns.  A primitive is its Python type *)
(* and its str() rendering; a dict is its insertion-ordered item list; a   *)
(* list is its element list.                                               *)
(***************************************************************************)
Prim(ty, s) == [ty |-> ty, s |-> s]
PyNone == Prim("NoneType", <<"N", "o", "n", "e">>)
Digit == <<"1", "2", "3", "4", "5", "6", "7", "8", "9">>
PyInt(n) == Prim("int", <<Digit[n]>>)
PyStr(s) == Prim("str", s)

RawVal(p) == [k |-> "val", v |-> p, items |-> <<>>]
RawDict(items) == [k |-> "dict", v |-> PyNone, items |-> items]
RawList(elems) ==
    [k |-> "list", v |-> PyNone,
     items |-> [i \in DOMAIN elems |-> [key |-> "", val |-> elems[i]]]]
Item(key, val) == [key |-> key, val |-> val]

\* int(index): the decimal strings the model uses; anything else raises ValueError
IntOf == [s \in {"0", "1", "2", "3"} |->
            CASE s = "0" -> 0 [] s = "1" -> 1 [] s = "2" -> 2 [] s = "3" -> 3]

(***************************************************************************)
(* The parameter files and requested names the model ranges over.  A       *)
(* dotted name such as "a.x" is the list of its segments, which is what    *)
(* split(".") hands to the lookup.                                         *)
(***************************************************************************)
Leaves == {RawVal(PyInt(n)) : n \in 1..MaxVal}
FileValues ==
    Leaves \cup {RawDict(<<Item("x", RawVal(PyInt(1)))>>),
                 RawList(<<RawVal(PyInt(1))>>)}
Configs ==
    {RawDict(<<>>)}
    \cup {RawDict(<<Item(key, v)>>) : key \in {"a", "b"}, v \in FileValues}
    \cup {RawDict(<<Item("a", v), Item("b", w)>>) : v \in FileValues, w \in Leaves}
Names == {<<"a">>, <<"b">>, <<"a", "x">>}
ParamLists == UNION {[1..n -> Names] : n \in 0..MaxParams}
FileStates == {"missing", "dir", "bad", "ok"}

EmptyMap == [n \in {} |-> RawVal(PyNone)]
EmptyReport == [n \in {} |-> ""]
NoHash == [set |-> FALSE, value |-> EmptyMap]
HashInfo(value) == [set |-> TRUE, value |-> value]
ToSet(seq) == {seq[i] : i \in DOMAIN seq}

\* dpath.util.get(config, param, separator="."): walk the segments through
\* nested dicts (by key) and lists (by integer index); KeyError when a
\* segment is not there.
NotFound == [found |-> FALSE, val |-> RawVal(PyNone)]
RECURSIVE DpathGet(_, _)
DpathGet(obj, path) ==
    IF path = <<>> THEN [found |-> TRUE, val |-> obj]
    ELSE IF obj.k = "dict" THEN
        LET hits == {i \in DOMAIN obj.items : obj.items[i].key = Head(path)}
        IN  IF hits = {} THEN NotFound
            ELSE DpathGet(obj.items[CHOOSE i \in hits : TRUE].val, Tail(path))
    ELSE IF obj.k = "list" THEN
        IF Head(path) \in DOMAIN IntOf /\ IntOf[Head(path)] < Len(obj.items)
        THEN DpathGet(obj.items[IntOf[Head(path)] + 1].val, Tail(path))
        ELSE NotFound
    ELSE NotFound

Result(err, val) == [err |-> err, val |-> val]

\* read_file: validate_filepath, then the loader
read_file(fs, cfg) ==
    IF fs = "missing" THEN Result("MissingParamsFile", RawDict(<<>>))
    ELSE IF fs = "dir" THEN Result("ParamsIsADirectoryError", RawDict(<<>>))
    ELSE IF fs = "bad" THEN Result("BadParamFileError", RawDict(<<>>))
    ELSE Result("", cfg)

\* _read: a missing file reads as {}
read_strict(fs, cfg) == read_file(fs, cfg)   \* (variant: MissingParamsFile not caught)
_read(fs, cfg) ==
    LET r == read_file(fs, cfg)
    IN  IF r.err = "MissingParamsFile" THEN Result("", RawDict(<<>>)) ELSE r

\* read_params: ret[param] for every param the lookup finds; KeyError is passed over
read_params(ps, fs, cfg) ==
    LET r == _read(fs, cfg)
    IN  IF r.err # "" THEN Result(r.err, EmptyMap)
        ELSE Result("", [n \in {m \in ToSet(ps) : DpathGet(r.val, m).found}
                            |-> DpathGet(r.val, n).val])

\* get_hash: read_params, then every requested name must be there
HashResult(err, missing, val) == [err |-> err, missing |-> missing, val |-> val]
get_hash_first_missing(ps, fs, cfg) ==
    LET info == read_params(ps, fs, cfg)
        missing_params == ToSet(ps) \ DOMAIN info.val
    IN  IF info.err # "" THEN HashResult(info.err, {}, EmptyMap)
        ELSE IF missing_params # {}
        THEN HashResult("MissingParamsError",
                        {ps[CHOOSE i \in DOMAIN ps :
                                /\ ps[i] \in missing_params
                                /\ \A j \in 1..(i - 1) : ps[j] \notin missing_params]},
                        EmptyMap)
        ELSE HashResult("", {}, info.val)
get_hash(ps, fs, cfg) ==
    LET info == read_params(ps, fs, cfg)
        missing_params == ToSet(ps) \ DOMAIN info.val
    IN  IF info.err # "" THEN HashResult(info.err, {}, EmptyMap)
        ELSE IF missing_params # {}
        THEN HashResult("MissingParamsError", missing_params, EmptyMap)
        ELSE HashResult("", {}, info.val)

\* super().workspace_status(): the whole-file check of the base class, which
\* may report the file itself "deleted" when it is not there
SuperStatus(fs) == IF fs = "missing" THEN {"deleted", "none"} ELSE {"none"}

\* workspace_status: the per-name diff of the disk values against hash_info
StatusResult(err, whole, report) == [err |-> err, whole |-> whole, report |-> report]
ParamStatusBaselineFirst(param, actual, info) ==
    IF param \notin DOMAIN info THEN "new"
    ELSE IF param \notin DOMAIN actual THEN "deleted"
    ELSE IF actual[param] # info[param] THEN "modified"
    ELSE ""
ParamStatus(param, actual, info) ==
    IF param \notin DOMAIN actual THEN "deleted"
    ELSE IF param \notin DOMAIN info THEN "new"
    ELSE IF actual[param] # info[param] THEN "modified"
    ELSE ""
workspace_status(ps, hi, fs, cfg, superSt) ==
    IF superSt = "deleted" THEN StatusResult("", TRUE, EmptyReport)
    ELSE
        LET info == IF hi.set THEN hi.value ELSE EmptyMap
            actual == read_params(ps, fs, cfg)
        IN  IF actual.err # "" THEN StatusResult(actual.err, FALSE, EmptyReport)
            ELSE StatusResult("", FALSE,
                    [n \in {m \in ToSet(ps) : ParamStatus(m, actual.val, info) # ""}
                        |-> ParamStatus(n, actual.val, info)])

\* save: the target must exist; then hash_info = get_hash()
SaveResult(err, hash) == [err |-> err, hash |-> hash]
save_assign_first(ps, hi, fs, cfg) ==
    IF fs = "missing" THEN SaveResult("DoesNotExistError", hi)
    ELSE LET h == get_hash(ps, fs, cfg)
             r == read_params(ps, fs, cfg)
         IN  IF h.err # "" THEN SaveResult(h.err, HashInfo(r.val))
             ELSE SaveResult("", HashInfo(h.val))
save(ps, hi, fs, cfg) ==
    IF fs = "missing" THEN SaveResult("DoesNotExistError", hi)
    ELSE LET h == get_hash(ps, fs, cfg)
         IN  IF h.err # "" THEN SaveResult(h.err, hi)
             ELSE SaveResult("", HashInfo(h.val))

\* fill_values: the baseline is the given values, restricted to the requested names
fill_values(ps, hi, values) ==
    IF DOMAIN values = {} THEN hi
    ELSE HashInfo([n \in ToSet(ps) \cap DOMAIN values |-> values[n]])

\* __init__: params is a list of names, or a mapping whose keys are the names
\* and whose values seed hash_info
SeedMaps ==
    UNION {{[key |-> ps, val |-> [n \in ToSet(ps) |-> f[n]]] :
                f \in [ToSet(ps) -> Leaves]} :
           ps \in {q \in ParamLists : q # <<>> /\ Cardinality(ToSet(q)) = Len(q)}}
FillInputs == {[n \in S |-> RawVal(PyInt(1))] : S \in SUBSET Names}

(***************************************************************************)
(* SpecParams: one ParamsDependency and its parameters file                *)
(***************************************************************************)
Outcome(op, err, missing, val, whole, report) ==
    [op |-> op, err |-> err, missing |-> missing, val |-> val,
     whole |-> whole, report |-> report]
NoOutcome(op) == Outcome(op, "", {}, EmptyMap, FALSE, EmptyReport)

FormatIdle ==
    /\ template = <<>>
    /\ fmt = <<>>

ContextIdle ==
    /\ heap = <<>>
    /\ ctxs = <<>>
    /\ steps = 0
    /\ lastOp = <<>>
    /\ snap = <<>>
    /\ depth = 0
    /\ byTracked = {}

InitParams ==
    /\ \/ /\ params \in ParamLists
          /\ hash_info = NoHash
       \/ \E m \in SeedMaps :
            /\ params = m.key
            /\ hash_info = HashInfo(m.val)
    /\ fileState = "missing"
    /\ config = RawDict(<<>>)
    /\ outcome = NoOutcome("init")
    /\ cleanSinceSave = FALSE
    /\ ContextIdle
    /\ FormatIdle

\* the user (or a pipeline stage) rewrites, removes or replaces the file
EditFile ==
    /\ \E fs \in FileStates, cfg \in Configs :
         /\ fileState' = fs
         /\ config' = IF fs = "ok" THEN cfg ELSE RawDict(<<>>)
    /\ <<fileState', config'>> # <<fileState, config>>
    /\ outcome' = NoOutcome("edit")
    /\ cleanSinceSave' = FALSE
    /\ UNCHANGED <<params, hash_info>>
    /\ UNCHANGED <<ctxVars, fmtVars>>

ReadParams ==
    /\ LET r == read_params(params, fileState, config)
       IN  outcome' = Outcome("read_params", r.err, {}, r.val, FALSE, EmptyReport)
    /\ UNCHANGED <<params, hash_info, fileState, config, cleanSinceSave>>
    /\ UNCHANGED <<ctxVars, fmtVars>>

GetHash ==
    /\ LET h == get_hash(params, fileState, config)
       IN  outcome' = Outcome("get_hash", h.err, h.missing, h.val, FALSE, EmptyReport)
    /\ UNCHANGED <<params, hash_info, fileState, config, cleanSinceSave>>
    /\ UNCHANGED <<ctxVars, fmtVars>>

Status ==
    /\ \E superSt \in SuperStatus(fileState) :
         LET st == workspace_status(params, hash_info, fileState, config, superSt)
         IN  outcome' = Outcome("status", st.err, {}, EmptyMap, st.whole, st.report)
    /\ UNCHANGED <<params, hash_info, fileState, config, cleanSinceSave>>
    /\ UNCHANGED <<ctxVars, fmtVars>>

Save ==
    /\ LET r == save(params, hash_info, fileState, config)
       IN  /\ hash_info' = r.hash
           /\ outcome' = Outcome("save", r.err, {}, EmptyMap, FALSE, EmptyReport)
           /\ cleanSinceSave' = IF r.err = "" THEN TRUE ELSE cleanSinceSave
    /\ UNCHANGED <<params, fileState, config>>
    /\ UNCHANGED <<ctxVars, fmtVars>>

FillValues ==
    /\ \E values \in FillInputs :
         hash_info' = fill_values(params, hash_info, values)
    /\ outcome' = NoOutcome("fill_values")
    /\ cleanSinceSave' = FALSE
    /\ UNCHANGED <<params, fileState, config>>
    /\ UNCHANGED <<ctxVars, fmtVars>>

NextParams ==
    \/ EditFile
    \/ ReadParams
    \/ GetHash
    \/ Status
    \/ Save
    \/ FillValues

SpecParams == InitParams /\ [][NextParams]_vars

\* what is on disk at a dotted name, read off the file directly
OnDisk(n) == fileState = "ok" /\ DpathGet(config, n).found
DiskValue(n) == DpathGet(config, n).val
Baseline == IF hash_info.set THEN hash_info.value ELSE EmptyMap
Reported(n) == IF n \in DOMAIN outcome.report THEN outcome.report[n] ELSE ""
Readable == fileState \in {"ok", "missing"}

(***************************************************************************)
(* Claims about ParamsDependency (checked under SpecParams)                *)
(***************************************************************************)

\* C1 (as stated): after status(), per requested name: "deleted" exactly
\* when the name is in the baseline and not on disk, "new" exactly when it
\* is not in the baseline and on disk, "modified" exactly when it is in both
\* with unequal values, no entry when the values are equal; and no name
\* outside requestedParams is reported.  (Read with the file in place and
\* loadable, and the per-name diff not skipped.)
C1_StatusAsStated ==
    (outcome.op = "status" /\ outcome.err = "" /\ ~outcome.whole /\ fileState = "ok") =>
        /\ DOMAIN outcome.report \subseteq ToSet(params)
        /\ \A n \in ToSet(params) :
            /\ Reported(n) = "deleted" <=> (n \in DOMAIN Baseline /\ ~OnDisk(n))
            /\ Reported(n) = "new" <=> (n \notin DOMAIN Baseline /\ OnDisk(n))
            /\ Reported(n) = "modified" <=>
                  (n \in DOMAIN Baseline /\ OnDisk(n) /\ DiskValue(n) # Baseline[n])
            /\ (n \in DOMAIN Baseline /\ OnDisk(n) /\ DiskValue(n) = Baseline[n])
                  => n \notin DOMAIN outcome.report

\* C1 (amended): when the whole-file check does not report the file deleted,
\* status() reports per requested name: "deleted" exactly when the name is
\* not on disk (in the baseline or not), "new" exactly when it is on disk
\* and not in the baseline, "modified" exactly when it is in both with
\* unequal values, and no entry exactly when it is in both with equal
\* values; no name outside requestedParams is reported.
C1_StatusPerName ==
    (outcome.op = "status" /\ outcome.err = "" /\ ~outcome.whole) =>
        /\ DOMAIN outcome.report \subseteq ToSet(params)
        /\ \A n \in ToSet(params) :
            /\ Reported(n) = "deleted" <=> ~OnDisk(n)
            /\ Reported(n) = "new" <=> (n \notin DOMAIN Baseline /\ OnDisk(n))
            /\ Reported(n) = "modified" <=>
                  (n \in DOMAIN Baseline /\ OnDisk(n) /\ DiskValue(n) # Baseline[n])
            /\ n \notin DOMAIN outcome.report <=>
                  (n \in DOMAIN Baseline /\ OnDisk(n) /\ DiskValue(n) = Baseline[n])

\* a status() whose report holds a name deleted that the baseline never had,
\* beside a modified one
C1_Witness ==
    /\ outcome.op = "status" /\ outcome.err = "" /\ ~outcome.whole
    /\ \E n \in ToSet(params) : Reported(n) = "deleted" /\ n \notin DOMAIN Baseline
    /\ \E n \in ToSet(params) : Reported(n) = "modified"

\* C2: get_hash() fails with MissingParamsError exactly when a requested
\* name is absent from the loaded file, and the error names every absent
\* requested name; otherwise it returns the map whose keys are exactly the
\* requested names, each with the value at its dotted path.  read_params()
\* on the same input does not fail and returns exactly the present names.
C2_GetHashMissing ==
    LET present == {n \in ToSet(params) : OnDisk(n)}
        absent == ToSet(params) \ present
    IN  /\ (outcome.op = "get_hash" /\ Readable) =>
            /\ absent # {} =>
                  /\ outcome.err = "MissingParamsError"
                  /\ outcome.missing = absent
            /\ absent = {} =>
                  /\ outcome.err = ""
                  /\ DOMAIN outcome.val = ToSet(params)
                  /\ \A n \in ToSet(params) : outcome.val[n] = DiskValue(n)
        /\ (outcome.op = "read_params" /\ Readable) =>
            /\ outcome.err = ""
            /\ DOMAIN outcome.val = present
            /\ \A n \in present : outcome.val[n] = DiskValue(n)

\* a get_hash() that failed over two absent names at once
C2_Witness ==
    /\ outcome.op = "get_hash"
    /\ outcome.err = "MissingParamsError"
    /\ Cardinality(outcome.missing) >= 2
    /\ fileState = "ok"

\* C3 (as stated): with the parameters file missing, get_hash() fails with
\* MissingParamsFile whatever the requested list, while read_params() and
\* status() do not fail.
C3_MissingFileAsStated ==
    fileState = "missing" =>
        /\ outcome.op = "get_hash" => outcome.err = "MissingParamsFile"
        /\ outcome.op \in {"read_params", "status"} => outcome.err = ""

\* C3 (amended): with the parameters file missing, get_hash() never fails
\* with MissingParamsFile: it fails with MissingParamsError naming every
\* requested name when the list is not empty, and returns the empty map when
\* it is empty; read_params() returns the empty map; status() does not fail
\* and reports either the whole file deleted or every requested name deleted.
C3_MissingFile ==
    fileState = "missing" =>
        /\ outcome.op = "get_hash" =>
            /\ params # <<>> =>
                  /\ outcome.err = "MissingParamsError"
                  /\ outcome.missing = ToSet(params)
            /\ params = <<>> => (outcome.err = "" /\ outcome.val = EmptyMap)
        /\ outcome.op = "read_params" => (outcome.err = "" /\ outcome.val = EmptyMap)
        /\ outcome.op = "status" =>
            /\ outcome.err = ""
            /\ \/ outcome.whole
               \/ outcome.report = [n \in ToSet(params) |-> "deleted"]

\* get_hash() of an empty requested list returned normally with no file there
C3_Witness ==
    /\ fileState = "missing"
    /\ outcome.op = "get_hash"
    /\ params = <<>>
    /\ outcome.err = ""

\* C4: a successful save() sets hash_info to the requested names mapped to
\* the values on disk; a failed save() leaves hash_info as it was; status()
\* changes neither hash_info nor params; and a status() taken while the file
\* and the baseline are as the last successful save() left them reports no
\* parameter.
C4_BaselineLifecycle ==
    /\ [](outcome.op = "status" /\ cleanSinceSave =>
            (outcome.err = "" /\ DOMAIN outcome.report = {}))
    /\ [][/\ (outcome'.op = "save" /\ outcome'.err = "") =>
                /\ fileState = "ok"
                /\ hash_info' = HashInfo([n \in ToSet(params) |-> DiskValue(n)])
          /\ (outcome'.op = "save" /\ outcome'.err # "") => hash_info' = hash_info
          /\ outcome'.op = "status" => (hash_info' = hash_info /\ params' = params)
         ]_vars

\* a status() right after a successful save() of a non-empty list, and one
\* after a failed save() that had a baseline to keep
C4_Witness ==
    /\ outcome.op = "status"
    /\ cleanSinceSave
    /\ params # <<>>
    /\ hash_info.set
    /\ Len(params) = 2 /\ params[1] # params[2]

(***************************************************************************)
(* The context tree (context.py).  Python objects live in a heap: an       *)
(* object's identity is its index.  Value, CtxList, CtxDict and String are *)
(* the node classes; "prim", "list" and "dict" are plain Python values     *)
(* that were handed in and not (yet) converted.  A container's data is its *)
(* ordered item list; a list's items have the key "".                      *)
(***************************************************************************)
Meta(source, dpaths) == [source |-> source, dpaths |-> dpaths]
NoSource == ""                      \* source=None
RootMeta == Meta(NoSource, <<>>)    \* Container.__init__: meta or Meta(source=None)
StrOf(i) ==                         \* str(index)
    CASE i = 0 -> "0" [] i = 1 -> "1" [] i = 2 -> "2" [] i = 3 -> "3" [] OTHER -> "-1"
\* Meta.update_path: dpaths[:] + [str(path)]
update_path(meta, path) == Meta(meta.source, Append(meta.dpaths, path))
\* Meta.path(): ".".join(dpaths); the model keeps the joined segments as a list
MetaPath(meta) == meta.dpaths

Obj(kind, value, meta, data, sources) ==
    [kind |-> kind, value |-> value, meta |-> meta, data |-> data, sources |-> sources]
NodeKinds == {"Value", "CtxList", "CtxDict", "String"}
Entry(key, ref) == [key |-> key, ref |-> ref]
Alloc(h, obj) == [h |-> Append(h, obj), id |-> Len(h) + 1]
IsMapping(obj) == obj.kind \in {"dict", "CtxDict"}

\* data[key] of a dict: the reference stored under key, 0 when there is none
Lookup(data, key) ==
    LET hits == {i \in DOMAIN data : data[i].key = key}
    IN  IF hits = {} THEN 0 ELSE data[CHOOSE i \in hits : TRUE].ref
\* data[key] = ref of a dict: in place when the key is there, appended otherwise
DictPut(data, key, ref) ==
    IF Lookup(data, key) = 0 THEN Append(data, Entry(key, ref))
    ELSE [i \in DOMAIN data |-> IF data[i].key = key THEN Entry(key, ref) ELSE data[i]]
\* list.insert(index, x): index clamped into 0..len, negative counted from the end
ClampIndex(index, len) ==
    IF index < 0 THEN (IF len + index < 0 THEN 0 ELSE len + index)
    ELSE IF index > len THEN len ELSE index
ListInsert(data, index, ref) ==
    LET at == ClampIndex(index, Len(data))
    IN  SubSeq(data, 1, at) \o <<Entry("", ref)>> \o SubSeq(data, at + 1, Len(data))

\* a caller's raw value as plain Python objects on the heap
RECURSIVE AllocRaw(_, _)
RECURSIVE AllocRawItems(_, _)
AllocRawItems(h, items) ==
    IF items = <<>> THEN [h |-> h, data |-> <<>>]
    ELSE LET first == AllocRaw(h, Head(items).val)
             rest == AllocRawItems(first.h, Tail(items))
         IN  [h |-> rest.h, data |-> <<Entry(Head(items).key, first.id)>> \o rest.data]
AllocRaw(h, raw) ==
    IF raw.k = "val" THEN Alloc(h, Obj("prim", raw.v, RootMeta, <<>>, {}))
    ELSE LET ch == AllocRawItems(h, raw.items)
         IN  Alloc(ch.h, Obj(raw.k, PyNone, RootMeta, ch.data, {}))

\* Container._convert, with CtxDict.__init__ / CtxList.__init__ for nested
\* collections: a primitive becomes a Value, a node is kept as it is, a list
\* or dict becomes a CtxList or CtxDict whose children are converted in turn
RECURSIVE _convert(_, _, _, _)
RECURSIVE DictUpdate(_, _, _)
RECURSIVE ListExtend(_, _, _)
_convert(h, pmeta, key, value) ==
    LET meta == update_path(pmeta, key)
        v == h[value]
    IN  IF v.kind = "prim" THEN Alloc(h, Obj("Value", v.value, meta, <<>>, {}))
        ELSE IF v.kind \in NodeKinds THEN [h |-> h, id |-> value]
        ELSE LET self == Alloc(h, Obj(IF v.kind = "dict" THEN "CtxDict" ELSE "CtxList",
                                      PyNone, meta, <<>>, {}))
             IN  [h |-> IF v.kind = "dict" THEN DictUpdate(self.h, self.id, v.data)
                        ELSE ListExtend(self.h, self.id, v.data),
                  id |-> self.id]
\* MutableMapping.update: self[key] = value for every item (CtxDict.__setitem__)
DictUpdate(h, self, items) ==
    IF items = <<>> THEN h
    ELSE LET c == _convert(h, h[self].meta, Head(items).key, Head(items).ref)
             h2 == [c.h EXCEPT ![self].data = DictPut(@, Head(items).key, c.id)]
         IN  DictUpdate(h2, self, Tail(items))
\* MutableSequence.extend: insert(len(self), value) for every value (CtxList.insert)
ListExtend(h, self, items) ==
    IF items = <<>> THEN h
    ELSE LET index == Len(h[self].data)
             c == _convert(h, h[self].meta, StrOf(index), Head(items).ref)
             h2 == [c.h EXCEPT ![self].data = ListInsert(@, index, c.id)]
         IN  ListExtend(h2, self, Tail(items))

\* Container.__setitem__ on a CtxDict: data[key] = _convert(key, value)
dict_setitem(h, self, key, value) ==
    LET c == _convert(h, h[self].meta, key, value)
    IN  [c.h EXCEPT ![self].data = DictPut(@, key, c.id)]
\* Container.__setitem__ on a CtxList: data[index] = _convert(index, value);
\* IndexError (heap unchanged) when the index is out of range
list_setitem(h, self, index, value) ==
    LET c == _convert(h, h[self].meta, StrOf(index), value)
        len == Len(h[self].data)
        at == IF index < 0 THEN len + index ELSE index
    IN  IF at < 0 \/ at >= len THEN h
        ELSE [c.h EXCEPT ![self].data[at + 1] = Entry("", c.id)]
\* CtxList.insert: data.insert(index, _convert(index, value))
list_insert(h, self, index, value) ==
    LET c == _convert(h, h[self].meta, StrOf(index), value)
    IN  [c.h EXCEPT ![self].data = ListInsert(@, index, c.id)]
\* Container.__delitem__: del data[key]
DropAt(data, i) == SubSeq(data, 1, i - 1) \o SubSeq(data, i + 1, Len(data))
delitem(h, self, i) == [h EXCEPT ![self].data = DropAt(@, i)]

\* _merge(into, update, overwrite).  `into` is used as a plain dict (the
\* receiver's self.data, or a raw dict reached below it: plain = TRUE) or as
\* a CtxDict (a nested node, whose __setitem__ converts: plain = FALSE).
\* items is what is left of update.items().  Returns the heap as the loop
\* left it, and the colliding key when it raised.
MergeResult(h, err, key) == [h |-> h, err |-> err, key |-> key]
merge_store(h, into, plain, key, val) ==
    IF plain THEN [h EXCEPT ![into].data = DictPut(@, key, val)]
    ELSE dict_setitem(h, into, key, val)
RECURSIVE _merge_no_recursion(_, _, _, _, _)
_merge_no_recursion(h, into, plain, items, overwrite) ==
    IF items = <<>> THEN MergeResult(h, "", "")
    ELSE LET key == Head(items).key
             val == Head(items).ref
             cur == Lookup(h[into].data, key)
         IN  IF cur # 0 /\ ~overwrite THEN MergeResult(h, "ValueError", key)
             ELSE _merge_no_recursion(merge_store(h, into, plain, key, val),
                                      into, plain, Tail(items), overwrite)
RECURSIVE _merge(_, _, _, _, _)
_merge(h, into, plain, items, overwrite) ==
    IF items = <<>> THEN MergeResult(h, "", "")
    ELSE LET key == Head(items).key
             val == Head(items).ref
             cur == Lookup(h[into].data, key)
         IN  IF cur # 0 /\ IsMapping(h[cur]) /\ IsMapping(h[val])
             THEN LET sub == _merge(h, cur, h[cur].kind = "dict", h[val].data, overwrite)
                  IN  IF sub.err # "" THEN sub
                      ELSE _merge(sub.h, into, plain, Tail(items), overwrite)
             ELSE IF cur # 0 /\ ~overwrite THEN MergeResult(h, "ValueError", key)
             ELSE _merge(merge_store(h, into, plain, key, val),
                         into, plain, Tail(items), overwrite)

\* CtxDict.merge_update(d, overwrite): _merge(self.data, d, overwrite)
merge_update(h, self, d, overwrite) == _merge(h, self, TRUE, h[d].data, overwrite)

\* Container.select: one segment at a time; a CtxList takes int(index), a
\* CtxDict the segment itself; LookupError becomes ValueError; a segment
\* below something that is no container is an AttributeError
SelectResult(err, ref) == [err |-> err, ref |-> ref]
RECURSIVE select(_, _, _)
select(h, self, key) ==
    LET index == Head(key)
        rems == Tail(key)
        node == h[self]
    IN  IF node.kind \notin {"CtxList", "CtxDict"} THEN SelectResult("AttributeError", 0)
        ELSE IF node.kind = "CtxList" /\ index \notin DOMAIN IntOf
        THEN SelectResult("ValueError", 0)
        ELSE LET d == IF node.kind = "CtxDict" THEN Lookup(node.data, index)
                      ELSE LET i == IntOf[index]
                               at == IF i < 0 THEN Len(node.data) + i ELSE i
                           IN  IF at < 0 \/ at >= Len(node.data) THEN 0
                               ELSE node.data[at + 1].ref
             IN  IF d = 0 THEN SelectResult("ValueError", 0)
                 ELSE IF rems # <<>> THEN select(h, d, rems)
                 ELSE SelectResult("", d)

\* everything reachable from a set of objects
RECURSIVE Reach(_, _)
Reach(h, S) ==
    LET T == S \cup UNION {{h[i].data[j].ref : j \in DOMAIN h[i].data} : i \in S}
    IN  IF T = S THEN S ELSE Reach(h, T)

\* copy.deepcopy of the objects reachable from one: every object is copied
\* once, and the copies refer to each other as the originals did
Rank(S, i) == Cardinality({j \in S : j < i})
deepcopy(h, ref) ==
    LET R == Reach(h, {ref})
        new(i) == Len(h) + 1 + Rank(R, i)
        old(n) == CHOOSE i \in R : new(i) = n
        copy(o) == [o EXCEPT !.data = [j \in DOMAIN o.data |->
                                          Entry(o.data[j].key, new(o.data[j].ref))]]
    IN  [h |-> [n \in 1..(Len(h) + Cardinality(R)) |->
                    IF n <= Len(h) THEN h[n] ELSE copy(h[old(n)])],
         id |-> new(ref)]

\* Context.clone: cls(deepcopy(ctx.data)).  The copied dict is handed to
\* CtxDict.__init__, which stores each copied node under its key.
clone(h, ctx) ==
    LET data == deepcopy(h, ctx)
        self == Alloc(data.h, Obj("CtxDict", PyNone, RootMeta, <<>>, {}))
    IN  [h |-> DictUpdate(self.h, self.id, data.h[data.id].data), id |-> self.id]

\* what is garbage is dropped and the rest renumbered in heap order
Compact(h, roots) ==
    LET R == Reach(h, roots)
        old(n) == CHOOSE i \in R : Rank(R, i) + 1 = n
    IN  [n \in 1..Cardinality(R) |->
            [h[old(n)] EXCEPT !.data = [j \in DOMAIN @ |->
                                          Entry(@[j].key, Rank(R, @[j].ref) + 1)]]]
Renamed(h, roots, i) == Rank(Reach(h, roots), i) + 1

\* the plain value a tree holds (what str() and == see), and the same with
\* each node's class and provenance
RECURSIVE ToRaw(_, _)
ToRaw(h, ref) ==
    LET o == h[ref]
    IN  IF o.kind \in {"prim", "Value", "String"} THEN RawVal(o.value)
        ELSE [k |-> IF IsMapping(o) THEN "dict" ELSE "list", v |-> PyNone,
              items |-> [j \in DOMAIN o.data |->
                            Item(o.data[j].key, ToRaw(h, o.data[j].ref))]]
RECURSIVE NodeView(_, _)
NodeView(h, ref) ==
    LET o == h[ref]
    IN  [kind |-> o.kind, value |-> o.value, meta |-> o.meta,
         items |-> [j \in DOMAIN o.data |->
                       [key |-> o.data[j].key, val |-> NodeView(h, o.data[j].ref)]]]

(***************************************************************************)
(* SpecContext: two Contexts on one heap.  "orig" is built from loaded     *)
(* data; "clone" is Context.clone(orig).  Every mutating call names the    *)
(* Context it goes through and a container reachable from that Context.    *)
(***************************************************************************)
CtxNames == {"orig", "clone"}
Keys == {"a", "b"}
Indexes == {0, 1, -1}
One == RawVal(PyInt(1))
Two == RawVal(PyInt(2))
InitData ==
    {RawDict(<<>>),
     RawDict(<<Item("a", One)>>),
     RawDict(<<Item("a", RawDict(<<Item("a", One)>>))>>),
     RawDict(<<Item("a", RawList(<<One>>))>>),
     RawDict(<<Item("a", One), Item("b", RawDict(<<Item("b", One)>>))>>)}
ValueInputs == {Two, RawDict(<<Item("b", Two)>>), RawList(<<Two>>)}
MergeInputs ==
    {RawDict(<<Item("a", Two)>>),
     RawDict(<<Item("a", RawDict(<<Item("b", Two)>>))>>),
     RawDict(<<Item("b", RawDict(<<Item("a", Two)>>)), Item("a", Two)>>)}
Sources == {NoSource, "params.yaml"}

NoContext == [root |-> 0, track |-> FALSE, tracked |-> {}]
Roots(cs) == {cs[c].root : c \in CtxNames} \ {0}
Op(op, ctx, target, err, key, overwrite, pre, upd) ==
    [op |-> op, ctx |-> ctx, target |-> target, err |-> err, key |-> key,
     overwrite |-> overwrite, pre |-> pre, upd |-> upd]
NoOp(op, ctx) == Op(op, ctx, 0, "", "", FALSE, RawVal(PyNone), RawVal(PyNone))
EmptyView == [kind |-> "", value |-> PyNone, meta |-> RootMeta, items |-> <<>>]
NoSnap == [taken |-> FALSE, orig |-> EmptyView, clone |-> EmptyView, touched |-> {}]
Touch(c) == IF snap.taken THEN [snap EXCEPT !.touched = @ \cup {c}] ELSE snap

\* Context(data, meta=Meta(source)): CtxDict.__init__ and Context.__init__
NewContext(raw, source) ==
    LET arg == AllocRaw(<<>>, raw)
        self == Alloc(arg.h, Obj("CtxDict", PyNone, Meta(source, <<>>), <<>>, {}))
        h == DictUpdate(self.h, self.id, arg.h[arg.id].data)
    IN  [h |-> Compact(h, {self.id}), id |-> Renamed(h, {self.id}, self.id)]

ParamsIdle ==
    /\ params = <<>>
    /\ hash_info = NoHash
    /\ fileState = "missing"
    /\ config = RawDict(<<>>)
    /\ outcome = NoOutcome("idle")
    /\ cleanSinceSave = FALSE

InitContext ==
    /\ \E raw \in InitData, source \in Sources :
         LET c == NewContext(raw, source)
         IN  /\ heap = c.h
             /\ ctxs = [n \in CtxNames |->
                          IF n = "orig" THEN [root |-> c.id, track |-> FALSE, tracked |-> {}]
                          ELSE NoContext]
    /\ steps = 0
    /\ lastOp = NoOp("init", "orig")
    /\ snap = NoSnap
    /\ depth = 0
    /\ byTracked = {}
    /\ ParamsIdle
    /\ FormatIdle

Containers(c, kind) ==
    {i \in Reach(heap, {ctxs[c].root}) : heap[i].kind = kind}
\* the heap after a call, and the Contexts' roots in it
Settle(h, op) ==
    /\ heap' = Compact(h, Roots(ctxs))
    /\ ctxs' = [n \in CtxNames |->
                   IF ctxs[n].root = 0 THEN ctxs[n]
                   ELSE [ctxs[n] EXCEPT !.root = Renamed(h, Roots(ctxs), @)]]
    /\ lastOp' = [op EXCEPT !.target = IF @ = 0 THEN 0 ELSE Renamed(h, Roots(ctxs), @)]
    /\ steps' = steps + 1
    /\ snap' = Touch(op.ctx)
    /\ UNCHANGED <<depth, byTracked>>
    /\ UNCHANGED <<paramsVars, fmtVars>>

\* node[key] = value, node a CtxDict of Context c
SetItem ==
    /\ steps < MaxSteps
    /\ \E c \in CtxNames, key \in Keys, raw \in ValueInputs :
         /\ ctxs[c].root # 0
         /\ \E self \in Containers(c, "CtxDict") :
              LET arg == AllocRaw(heap, raw)
              IN  Settle(dict_setitem(arg.h, self, key, arg.id), NoOp("setitem", c))

\* node[index] = value, node a CtxList of Context c
ListSetItem ==
    /\ steps < MaxSteps
    /\ \E c \in CtxNames, index \in Indexes, raw \in ValueInputs :
         /\ ctxs[c].root # 0
         /\ \E self \in Containers(c, "CtxList") :
              LET arg == AllocRaw(heap, raw)
              IN  Settle(list_setitem(arg.h, self, index, arg.id), NoOp("setitem", c))

\* node.insert(index, value), node a CtxList of Context c
Insert ==
    /\ steps < MaxSteps
    /\ \E c \in CtxNames, index \in Indexes, raw \in ValueInputs :
         /\ ctxs[c].root # 0
         /\ \E self \in Containers(c, "CtxList") :
              LET arg == AllocRaw(heap, raw)
              IN  Settle(list_insert(arg.h, self, index, arg.id), NoOp("insert", c))

\* del node[key], node a container of Context c
DelItem ==
    /\ steps < MaxSteps
    /\ \E c \in CtxNames :
         /\ ctxs[c].root # 0
         /\ \E self \in Containers(c, "CtxDict") \cup Containers(c, "CtxList") :
              \E i \in DOMAIN heap[self].data :
                  Settle(delitem(heap, self, i), NoOp("delitem", c))

\* c.merge_update(d, overwrite=...), d a raw dict
MergeRaw ==
    /\ steps < MaxSteps
    /\ \E c \in CtxNames, raw \in MergeInputs, overwrite \in BOOLEAN :
         /\ ctxs[c].root # 0
         /\ LET arg == AllocRaw(heap, raw)
                m == merge_update(arg.h, ctxs[c].root, arg.id, overwrite)
            IN  Settle(m.h, Op("merge_update", c, ctxs[c].root, m.err, m.key, overwrite,
                               ToRaw(heap, ctxs[c].root), raw))

\* c.merge_update(d, overwrite=...), d the other Context
MergeContext ==
    /\ steps < MaxSteps
    /\ \E c \in CtxNames, d \in CtxNames, overwrite \in BOOLEAN :
         /\ c # d
         /\ ctxs[c].root # 0
         /\ ctxs[d].root # 0
         /\ LET m == merge_update(heap, ctxs[c].root, ctxs[d].root, overwrite)
            IN  Settle(m.h, Op("merge_update", c, ctxs[c].root, m.err, m.key, overwrite,
                               ToRaw(heap, ctxs[c].root), ToRaw(heap, ctxs[d].root)))

\* clone = Context.clone(orig)
Clone ==
    /\ ctxs["clone"].root = 0
    /\ LET c == clone(heap, ctxs["orig"].root)
           roots == {ctxs["orig"].root, c.id}
           h == Compact(c.h, roots)
           o == Renamed(c.h, roots, ctxs["orig"].root)
           n == Renamed(c.h, roots, c.id)
       IN  /\ heap' = h
           /\ ctxs' = [ctxs EXCEPT !["orig"].root = o,
                                   !["clone"] = [root |-> n, track |-> FALSE, tracked |-> {}]]
           /\ snap' = [taken |-> TRUE, orig |-> NodeView(h, o), clone |-> NodeView(h, n),
                       touched |-> {}]
    /\ lastOp' = NoOp("clone", "orig")
    /\ UNCHANGED <<steps, depth, byTracked>>
    /\ UNCHANGED <<paramsVars, fmtVars>>

NextContext ==
    \/ SetItem
    \/ ListSetItem
    \/ Insert
    \/ DelItem
    \/ MergeRaw
    \/ MergeContext
    \/ Clone

SpecContext == InitContext /\ [][NextContext]_vars

\* SpecMerge: merge_update calls only (from raw dicts and between the two
\* Contexts), on the receivers InitData and earlier merges produce
NextMerge ==
    \/ MergeRaw
    \/ MergeContext
    \/ Clone

SpecMerge == InitContext /\ [][NextMerge]_vars

(***************************************************************************)
(* SpecTrack: selects on one Context, inside and outside track() blocks    *)
(***************************************************************************)
SelectPaths == {<<"a">>, <<"b">>, <<"a", "a">>, <<"a", "0">>, <<"b", "b">>}

\* get_sources() of the node classes, as (source, path) pairs
get_sources(node) ==
    IF node.kind \in {"Value", "CtxList"} THEN {<<node.meta.source, MetaPath(node.meta)>>}
    ELSE IF node.kind = "String" THEN node.sources
    ELSE {}
\* Context._track_data: nothing unless _track; sources that are None are skipped
_track_data(ctx, node) ==
    IF ~ctx.track THEN ctx.tracked
    ELSE ctx.tracked \cup {e \in get_sources(node) : e[1] # NoSource}

\* `with ctx.track():` is entered: _track = True
EnterTrack ==
    /\ depth < MaxDepth
    /\ ctxs' = [ctxs EXCEPT !["orig"].track = TRUE]
    /\ depth' = depth + 1
    /\ lastOp' = NoOp("enter", "orig")
    /\ UNCHANGED <<heap, steps, snap, byTracked>>
    /\ UNCHANGED <<paramsVars, fmtVars>>

\* the block's body ends normally: the generator resumes, _track = False
ExitTrack ==
    /\ depth > 0
    /\ ctxs' = [ctxs EXCEPT !["orig"].track = FALSE]
    /\ depth' = depth - 1
    /\ lastOp' = NoOp("exit", "orig")
    /\ UNCHANGED <<heap, steps, snap, byTracked>>
    /\ UNCHANGED <<paramsVars, fmtVars>>

\* ctx.select(key) finds its node: Context.select, then _track_data
SelectFound ==
    /\ \E key \in SelectPaths :
         LET r == select(heap, ctxs["orig"].root, key)
         IN  /\ r.err = ""
             /\ ctxs' = [ctxs EXCEPT !["orig"].tracked = _track_data(ctxs["orig"], heap[r.ref])]
             /\ byTracked' =
                   IF depth > 0
                   THEN byTracked \cup {e \in get_sources(heap[r.ref]) : e[1] # NoSource}
                   ELSE byTracked
             /\ lastOp' = [NoOp("select", "orig") EXCEPT !.target = r.ref]
    /\ UNCHANGED <<heap, steps, snap, depth>>
    /\ UNCHANGED <<paramsVars, fmtVars>>

\* ctx.select(key) raises.  The exception leaves every track() block the
\* call was in unless the caller catches it inside; track() has no finally,
\* so the generator is not resumed after its yield.
SelectRaises ==
    /\ \E key \in SelectPaths, caught \in BOOLEAN :
         LET r == select(heap, ctxs["orig"].root, key)
         IN  /\ r.err # ""
             /\ depth' = IF caught THEN depth ELSE 0
             /\ lastOp' = [NoOp("select", "orig") EXCEPT !.err = r.err]
    /\ UNCHANGED <<heap, ctxs, steps, snap, byTracked>>
    /\ UNCHANGED <<paramsVars, fmtVars>>

NextTrack ==
    \/ EnterTrack
    \/ ExitTrack
    \/ SelectFound
    \/ SelectRaises

SpecTrack == InitContext /\ [][NextTrack]_vars

(***************************************************************************)
(* Claims about the context tree                                           *)
(***************************************************************************)

\* C5: every entry of the tracked ledger was recorded by a successful select
\* made with tracking requested (inside a track() block) on a node whose
\* source is not None, and a select made without tracking leaves the ledger
\* as it was.
C5_LedgerOnlyByTrackedSelect ==
    /\ [](ctxs["orig"].tracked \subseteq byTracked)
    /\ [][(depth = 0 /\ lastOp'.op = "select") =>
            ctxs'["orig"].tracked = ctxs["orig"].tracked]_vars

\* merge semantics on plain values, as the claim words them
RawKeys(d) == {d.items[i].key : i \in DOMAIN d.items}
RawAt(d, key) == d.items[CHOOSE i \in DOMAIN d.items : d.items[i].key = key].val
BothMaps(a, b, key) == RawAt(a, key).k = "dict" /\ RawAt(b, key).k = "dict"
RECURSIVE Collides(_, _)
Collides(a, b) ==
    \E key \in RawKeys(a) \cap RawKeys(b) :
        IF BothMaps(a, b, key) THEN Collides(RawAt(a, key), RawAt(b, key)) ELSE TRUE
RECURSIVE CollidingKeys(_, _)
CollidingKeys(a, b) ==
    {key \in RawKeys(a) \cap RawKeys(b) : ~BothMaps(a, b, key)}
    \cup UNION {CollidingKeys(RawAt(a, key), RawAt(b, key)) :
                   key \in {x \in RawKeys(a) \cap RawKeys(b) : BothMaps(a, b, x)}}
RECURSIVE Merged(_, _)
Merged(a, b) ==
    LET IsNew(it) == it.key \notin RawKeys(a)
        kept == [i \in DOMAIN a.items |->
                    LET key == a.items[i].key
                    IN  IF key \notin RawKeys(b) THEN a.items[i]
                        ELSE IF BothMaps(a, b, key)
                        THEN Item(key, Merged(RawAt(a, key), RawAt(b, key)))
                        ELSE Item(key, RawAt(b, key))]
    IN  RawDict(kept \o SelectSeq(b.items, IsNew))
RECURSIVE KeptOutside(_, _, _)
KeptOutside(pre, post, upd) ==
    \A key \in RawKeys(pre) :
        /\ key \in RawKeys(post)
        /\ IF key \notin RawKeys(upd) THEN RawAt(post, key) = RawAt(pre, key)
           ELSE BothMaps(pre, upd, key) =>
                   /\ RawAt(post, key).k = "dict"
                   /\ KeptOutside(RawAt(pre, key), RawAt(post, key), RawAt(upd, key))

\* C6: merge_update merges key by key and recurses where both sides hold
\* maps; any other key already on the receiver raises, naming a colliding
\* key, when overwrite is false, and is replaced by the incoming value when
\* overwrite is true; receiver keys that do not occur in the update keep
\* their values at every depth, whether the call returns or raises.
C6_MergeUpdate ==
    lastOp.op = "merge_update" =>
        LET pre == lastOp.pre
            upd == lastOp.upd
            post == ToRaw(heap, lastOp.target)
        IN  /\ KeptOutside(pre, post, upd)
            /\ (lastOp.overwrite \/ ~Collides(pre, upd)) =>
                  (lastOp.err = "" /\ post = Merged(pre, upd))
            /\ (~lastOp.overwrite /\ Collides(pre, upd)) =>
                  (lastOp.err = "ValueError" /\ lastOp.key \in CollidingKeys(pre, upd))

\* a merge without overwrite that raised on a collision after it had already
\* merged an earlier key, and a merge that recursed into a nested map
C6_Witness ==
    /\ lastOp.op = "merge_update"
    /\ ~lastOp.overwrite
    /\ lastOp.err = "ValueError"
    /\ ToRaw(heap, lastOp.target) # lastOp.pre

\* C7: the clone holds the same values at the same paths as the original
\* and shares no node with it; mutating one of the two Contexts never
\* changes what the other holds (values and provenance).
C7_CloneIndependent ==
    /\ lastOp.op = "clone" =>
          /\ ToRaw(heap, ctxs["clone"].root) = ToRaw(heap, ctxs["orig"].root)
          /\ Reach(heap, {ctxs["clone"].root}) \cap Reach(heap, {ctxs["orig"].root}) = {}
    /\ (snap.taken /\ "orig" \notin snap.touched) =>
          NodeView(heap, ctxs["orig"].root) = snap.orig
    /\ (snap.taken /\ "clone" \notin snap.touched) =>
          NodeView(heap, ctxs["clone"].root) = snap.clone

\* C10: every child of a CtxDict or CtxList reachable from a Context is a
\* converted node whose path strictly extends its parent's path.
StrictExtension(p, q) == Len(p) > Len(q) /\ SubSeq(p, 1, Len(q)) = q
C10_ChildrenConverted ==
    \A c \in CtxNames :
        ctxs[c].root # 0 =>
            \A i \in Reach(heap, {ctxs[c].root}) :
                heap[i].kind \in {"CtxDict", "CtxList"} =>
                    \A j \in DOMAIN heap[i].data :
                        LET child == heap[heap[i].data[j].ref]
                        IN  /\ child.kind \in {"Value", "CtxList", "CtxDict"}
                            /\ StrictExtension(child.meta.dpaths, heap[i].meta.dpaths)

(***************************************************************************)
(* SpecFormat: String.__init__ on bounded templates.  A string is the      *)
(* sequence of its characters.                                             *)
(***************************************************************************)
BS == "\\"
Flatten(chunks) ==
    LET RECURSIVE F(_)
        F(cs) == IF cs = <<>> THEN <<>> ELSE Head(cs) \o F(Tail(cs))
    IN  F(chunks)
Chunks ==
    {<<BS>>, <<"t">>,
     <<"$", "{", "x", "}">>,
     <<"$", "{", "{", " ", "x", " ", "}", "}">>,
     <<"$", "{", "u", "}">>,
     <<BS, "$", "{", "x", "}">>,
     <<BS, "$", "{", "{", "x", "}", "}">>,
     <<BS, "$", "{", "u", "}">>}
Templates == {Flatten(cs) : cs \in UNION {[1..n -> Chunks] : n \in 1..MaxChunks}}

\* the placeholder grammar: "$" not preceded by a backslash, then "{{" up
\* to the first "}}" or else "{" up to the first "}".  A match is the
\* 1-based index of its "$", of its last character, and its inner text.
Match(start, end, inner) == [start |-> start, end |-> end, inner |-> inner]
NoMatch == Match(0, 0, <<>>)
MatchAt(t, i) ==
    LET n == Len(t)
        doubleEnds == {j \in (i + 3)..(n - 1) : t[j] = "}" /\ t[j + 1] = "}"}
        singleEnds == {j \in (i + 2)..n : t[j] = "}"}
        Min(S) == CHOOSE j \in S : \A k \in S : j <= k
    IN  IF ~(t[i] = "$" /\ (i = 1 \/ t[i - 1] # BS) /\ i + 1 <= n /\ t[i + 1] = "{")
        THEN NoMatch
        ELSE IF i + 2 <= n /\ t[i + 2] = "{" /\ doubleEnds # {}
        THEN Match(i, Min(doubleEnds) + 1, SubSeq(t, i + 3, Min(doubleEnds) - 1))
        ELSE IF singleEnds # {}
        THEN Match(i, Min(singleEnds), SubSeq(t, i + 2, Min(singleEnds) - 1))
        ELSE NoMatch
RECURSIVE Matches(_, _)
Matches(t, i) ==
    IF i > Len(t) THEN <<>>
    ELSE LET m == MatchAt(t, i)
         IN  IF m = NoMatch THEN Matches(t, i + 1)
             ELSE <<m>> \o Matches(t, m.end + 1)

\* the dotted path of a placeholder's inner text: split on ".", each
\* segment stripped (Container.select); names are one character long here
RECURSIVE Strip(_)
Strip(seg) ==
    IF seg = <<>> THEN seg
    ELSE IF Head(seg) = " " THEN Strip(Tail(seg))
    ELSE IF seg[Len(seg)] = " " THEN Strip(SubSeq(seg, 1, Len(seg) - 1))
    ELSE seg
RECURSIVE SplitDots(_, _)
SplitDots(cs, cur) ==
    IF cs = <<>> THEN <<cur>>
    ELSE IF Head(cs) = "." THEN <<cur>> \o SplitDots(Tail(cs), <<>>)
    ELSE SplitDots(Tail(cs), Append(cur, Head(cs)))
KeyOf(seg) == IF Len(Strip(seg)) = 1 THEN Strip(seg)[1] ELSE "?"
ExprPath(inner) ==
    LET segs == SplitDots(inner, <<>>)
    IN  [i \in DOMAIN segs |-> KeyOf(segs[i])]

\* _resolve_value(match, context): context.select(inner)
_resolve_value(h, root, m) == select(h, root, ExprPath(m.inner))

\* str(node): Value.__str__ is str(value); String falls back on __repr__
StrNode(node) == node.value.s

\* String._add_source
_add_source(meta, val) ==
    LET m1 == IF val.kind = "Value" /\ val.meta.source # NoSource
              THEN meta \cup {<<val.meta.source, MetaPath(val.meta)>>}
              ELSE meta
    IN  IF val.kind = "String" /\ val.sources # {}
        THEN m1 \cup {e \in m1 : TRUE}      \* the loop runs over self.meta, not val.meta
        ELSE m1

\* str.replace(r"\${", "${")
RECURSIVE Unescape(_)
Unescape(cs) ==
    IF cs = <<>> THEN <<>>
    ELSE IF Len(cs) >= 3 /\ cs[1] = BS /\ cs[2] = "$" /\ cs[3] = "{"
    THEN <<"$", "{">> \o Unescape(SubSeq(cs, 4, Len(cs)))
    ELSE <<Head(cs)>> \o Unescape(Tail(cs))

\* String.__init__(template, matches, context)
StringResult(err, kind, value, meta) ==
    [err |-> err, kind |-> kind, value |-> value, meta |-> meta]
RECURSIVE StringLoop(_, _, _, _, _, _, _)
StringLoop(t, ms, h, root, index, buf, meta) ==
    IF ms = <<>>
    THEN StringResult("", "String", Unescape(buf \o SubSeq(t, index, Len(t))), meta)
    ELSE LET m == Head(ms)
             r == _resolve_value(h, root, m)
         IN  IF r.err # "" THEN StringResult(r.err, "String", <<>>, meta)
             ELSE StringLoop(t, Tail(ms), h, root, m.end + 1,
                             buf \o SubSeq(t, index, m.start - 1) \o StrNode(h[r.ref]),
                             _add_source(meta, h[r.ref]))
StringInit(t, ms, h, root) == StringLoop(t, ms, h, root, 1, <<>>, {})

\* format(template): a template that is exactly one placeholder gives the
\* resolved value itself; anything else goes through String
format(t, h, root) ==
    LET ms == Matches(t, 1)
    IN  IF Len(ms) = 1 /\ ms[1].start = 1 /\ ms[1].end = Len(t)
        THEN LET r == _resolve_value(h, root, ms[1])
             IN  IF r.err # "" THEN StringResult(r.err, "native", <<>>, {})
                 ELSE StringResult("", "native", StrNode(h[r.ref]), {})
        ELSE StringInit(t, ms, h, root)

\* the Contexts a template is formatted against: loaded from params.yaml,
\* with "x" absent, a plain string, a string that itself holds an escaped
\* placeholder, or the String an earlier interpolation produced
EscapedText == <<"a", BS, "$", "{", "b", "}">>
EarlierSources == {<<"vars.yaml", <<"p">>>>}
FormatContexts ==
    LET plain(raw) == NewContext(raw, "params.yaml")
        empty == plain(RawDict(<<>>))
        str == Alloc(empty.h, Obj("String", PyStr(<<"s">>), RootMeta, <<>>, EarlierSources))
    IN  {empty,
         plain(RawDict(<<Item("x", RawVal(PyStr(<<"v">>)))>>)),
         plain(RawDict(<<Item("x", RawVal(PyStr(EscapedText)))>>)),
         [h |-> dict_setitem(str.h, empty.id, "x", str.id), id |-> empty.id]}

NotFormatted == [done |-> FALSE, res |-> StringResult("", "native", <<>>, {})]

InitFormat ==
    /\ template \in Templates
    /\ \E c \in FormatContexts :
         /\ heap = c.h
         /\ ctxs = [n \in CtxNames |->
                      IF n = "orig" THEN [root |-> c.id, track |-> FALSE, tracked |-> {}]
                      ELSE NoContext]
    /\ fmt = NotFormatted
    /\ steps = 0
    /\ lastOp = NoOp("init", "orig")
    /\ snap = NoSnap
    /\ depth = 0
    /\ byTracked = {}
    /\ ParamsIdle

Format ==
    /\ ~fmt.done
    /\ fmt' = [done |-> TRUE, res |-> format(template, heap, ctxs["orig"].root)]
    /\ UNCHANGED <<template, ctxVars, paramsVars>>

NextFormat == Format

SpecFormat == InitFormat /\ [][NextFormat]_vars

(***************************************************************************)
(* Claims on String                                                        *)
(***************************************************************************)
FormatRoot == ctxs["orig"].root
Resolved(m) == _resolve_value(heap, FormatRoot, m)
AllResolve == \A i \in DOMAIN Matches(template, 1) : Resolved(Matches(template, 1)[i]).err = ""

\* what the stated rule gives for a template, read left to right: an
\* escaped "${" loses its backslash and stays text, a placeholder becomes
\* the text of its value, any other character is copied
RECURSIVE Rendered(_, _)
Rendered(t, i) ==
    IF i > Len(t) THEN <<>>
    ELSE IF i + 2 <= Len(t) /\ t[i] = BS /\ t[i + 1] = "$" /\ t[i + 2] = "{"
    THEN <<"$", "{">> \o Rendered(t, i + 3)
    ELSE IF MatchAt(t, i) # NoMatch
    THEN StrNode(heap[Resolved(MatchAt(t, i)).ref]) \o Rendered(t, MatchAt(t, i).end + 1)
    ELSE <<t[i]>> \o Rendered(t, i + 1)

\* C8: format() never evaluates a backslash-escaped placeholder: when every
\* unescaped placeholder of the template resolves, formatting succeeds and
\* the output is the template with each escaped placeholder's backslash
\* dropped and the rest kept as text, and each unescaped placeholder
\* replaced by its resolved value, in order of position.
C8_EscapedLiteral ==
    (fmt.done /\ AllResolve)
        => /\ fmt.res.err = ""
           /\ fmt.res.value = Rendered(template, 1)

\* the (source, path) pairs of the nested interpolation results that the
\* template's placeholders resolve to
NestedProvenance ==
    UNION {heap[Resolved(Matches(template, 1)[i]).ref].sources :
             i \in {j \in DOMAIN Matches(template, 1) :
                      /\ Resolved(Matches(template, 1)[j]).err = ""
                      /\ heap[Resolved(Matches(template, 1)[j]).ref].kind = "String"}}

\* C9: when a value spliced into an interpolated string was itself produced
\* by a nested interpolation, every (source, path) pair of that nested
\* result's provenance is in the enclosing result's provenance.
C9_NestedProvenanceKept ==
    (fmt.done /\ fmt.res.err = "" /\ fmt.res.kind = "String")
        => NestedProvenance \subseteq fmt.res.meta

====
